---------------------------- MODULE Spec2Model ----------------------------
(***************************************************************************)
(* The cgroup view of below: the filter engine (calculate_filter_out_set), *)
(* the tree walker (CgroupTab::get_rows / output_cgroup) and the view      *)
(* state (CgroupState) with its event handlers (CgroupView::new).          *)
(*                                                                         *)
(* Strings are sequences of one-character strings, so that                 *)
(* str::contains and format! are computed and not assumed.  An             *)
(* Option<T> is a sequence of length 0 (None) or 1 (Some).                 *)
(***************************************************************************)
EXTENDS Naturals, Sequences, FiniteSets

(***************************************************************************)
(* Bounds of the model.                                                    *)
(***************************************************************************)
\* nodes of a snapshot tree of the view (root included)
MaxNodes == 3
\* depth of a snapshot tree of the view (the root has depth 0)
MaxDepth == 2
\* nodes and depth of the trees the filter engine is applied to on its own
MaxFilterNodes == 5
MaxFilterDepth == 3
\* length of a filter string given to the filter engine on its own
MaxFilterLen == 2
\* recreated nodes of one snapshot (the root is never one)
MaxRecreated == 1
\* keys a user keeps collapsed by hand at one time
MaxCollapsed == 1
\* nodes and depth of the trees the tree walker is applied to on its own
MaxWalkNodes == 5
MaxWalkDepth == 3
\* keys in the collapsed set the tree walker is applied to on its own
MaxWalkCollapsed == 2
\* column index handed to the sort by column index
MaxTabIdx == 9

(***************************************************************************)
(* Strings                                                                 *)
(***************************************************************************)
\* cgroup names, in the order a node holds its children
NameOrder == <<"a", "b">>

Names == {NameOrder[i] : i \in 1..Len(NameOrder)}

NameIndex(n) == CHOOSE i \in 1..Len(NameOrder) : NameOrder[i] = n

Chars == Names \cup {"/"}

\* &str::contains: pat occurs in s as a contiguous substring
ContainsPrefixOnly(s, pat) ==
    Len(pat) <= Len(s) /\ SubSeq(s, 1, Len(pat)) = pat

Contains(s, pat) ==
    \E i \in 0..Len(s) :
        i + Len(pat) <= Len(s) /\ SubSeq(s, i + 1, i + Len(pat)) = pat

RECURSIVE Reverse(_)
Reverse(s) == IF s = <<>> THEN <<>> ELSE Append(Reverse(Tail(s)), Head(s))

Range(s) == {s[i] : i \in 1..Len(s)}

None == <<>>

Some(x) == <<x>>

(***************************************************************************)
(* Snapshots (CgroupModel).  A node is named by the sequence of names      *)
(* leading to it from the root; a snapshot holds the set of its nodes, the *)
(* set of its recreated nodes and the metrics of every node.               *)
(***************************************************************************)
Root == <<>>

Parent(p) == SubSeq(p, 1, Len(p) - 1)

IsPrefix(p, q) == Len(p) <= Len(q) /\ SubSeq(q, 1, Len(p)) = p

\* cgroup.data.full_path: "" for the root, parent's path + "/" + name below it
RECURSIVE full_path(_)
full_path(p) ==
    IF p = Root THEN <<>> ELSE full_path(Parent(p)) \o <<"/", p[Len(p)]>>

\* the shapes with at most n nodes and at most depth d: every node's parent is a node
RECURSIVE Shapes(_, _)
Shapes(n, d) ==
    IF n <= 1 THEN {{Root}}
    ELSE LET smaller == Shapes(n - 1, d)
             Grow(S) == {S \cup {Append(p, c)} : p \in {q \in S : Len(q) < d}, c \in Names}
         IN  smaller \cup UNION {Grow(S) : S \in smaller}

\* the metrics of a node: CPU usage follows the name order, memory runs against it, I/O ties
Metrics(p) ==
    IF p = Root THEN [cpu |-> 0, mem |-> 0, io |-> 0]
    ELSE [cpu |-> NameIndex(p[Len(p)]),
          mem |-> Len(NameOrder) - NameIndex(p[Len(p)]),
          io  |-> 0]

Snapshot(S, R) == [nodes |-> S, recreated |-> R, data |-> [p \in S |-> Metrics(p)]]

SnapshotsOf(shapes, r) ==
    UNION {{Snapshot(S, R) : R \in {X \in SUBSET (S \ {Root}) : Cardinality(X) <= r}} : S \in shapes}

\* the snapshots the collector hands to the view
Snapshots == SnapshotsOf(Shapes(MaxNodes, MaxDepth), MaxRecreated)

\* the trees the filter engine is applied to on its own
FilterTrees == SnapshotsOf(Shapes(MaxFilterNodes, MaxFilterDepth), 0)

\* cgroup.children, in the order the node holds them
children(m, p) ==
    LET present == SelectSeq(NameOrder, LAMBDA n : Append(p, n) \in m.nodes)
    IN  [i \in 1..Len(present) |-> Append(p, present[i])]

\* cgroup.count: the number of nodes of the subtree, the node included
count(m, p) == Cardinality({q \in m.nodes : IsPrefix(p, q)})

recreate_flag(m, p) == p \in m.recreated

Descendants(m, p) == {q \in m.nodes : IsPrefix(p, q) /\ q # p}

Ancestors(p) == {SubSeq(p, 1, i) : i \in 0..(Len(p) - 1)}

(***************************************************************************)
(* Filter engine: calculate_filter_out_set                                 *)
(***************************************************************************)
\* a leaf is filtered out when its path does not contain the filter
leaf_filtered_prefix(path, filter) == ~ContainsPrefixOnly(path, filter)

leaf_filtered(path, filter) == ~Contains(path, filter)

\* a child that is kept keeps its parent: filter_cgroup = false
child_kept_forgotten(acc, set) == [filter_cgroup |-> acc.filter_cgroup, set |-> set]

child_kept(acc, set) == [filter_cgroup |-> FALSE, set |-> set]

\* a child that is filtered out is inserted (again) and leaves filter_cgroup as it is
child_filtered(acc, set, child) ==
    [filter_cgroup |-> acc.filter_cgroup, set |-> set \cup {full_path(child)}]

RECURSIVE should_filter_out(_, _, _, _)
RECURSIVE filter_children(_, _, _, _)
\* the loop left after its first round
filter_children_first_only(m, kids, filter, acc) ==
    IF kids = <<>> THEN acc
    ELSE LET r == should_filter_out(m, Head(kids), filter, acc.set)
         IN  IF r.ret THEN child_filtered(acc, r.set, Head(kids))
                      ELSE child_kept(acc, r.set)

\* the loop over cgroup.children; acc is (filter_cgroup, set)
filter_children(m, kids, filter, acc) ==
    IF kids = <<>> THEN acc
    ELSE LET r == should_filter_out(m, Head(kids), filter, acc.set)
         IN  filter_children(m, Tail(kids), filter,
                             IF r.ret THEN child_filtered(acc, r.set, Head(kids))
                                      ELSE child_kept(acc, r.set))

\* returns (the function's result, the set after the call)
should_filter_out(m, cgroup, filter, set) ==
    IF count(m, cgroup) = 1
    THEN IF leaf_filtered(full_path(cgroup), filter)
         THEN [ret |-> TRUE, set |-> set \cup {full_path(cgroup)}]
         ELSE [ret |-> FALSE, set |-> set]
    ELSE LET acc == filter_children(m, children(m, cgroup), filter,
                                    [filter_cgroup |-> TRUE, set |-> set])
         IN  IF acc.filter_cgroup
             THEN [ret |-> TRUE, set |-> acc.set \cup {full_path(cgroup)}]
             ELSE [ret |-> FALSE, set |-> acc.set]

calculate_filter_out_set_below_root(m, filter) ==
    should_filter_out(m, Root, filter, {}).set \ {full_path(Root)}

calculate_filter_out_set(m, filter) == should_filter_out(m, Root, filter, {}).set

(***************************************************************************)
(* Sort engine                                                             *)
(***************************************************************************)
\* SingleCgroupModelFieldId: Name, Cpu(UsagePct), Mem(Total), Io(RwbytesPerSec)
Fields == {"Name", "Cpu.UsagePct", "Mem.Total", "Io.RwbytesPerSec"}

\* the comparable value of a field of a node
query(m, p, field) ==
    CASE field = "Name" -> IF p = Root THEN 0 ELSE NameIndex(p[Len(p)])
      [] field = "Cpu.UsagePct" -> m.data[p].cpu
      [] field = "Mem.Total" -> m.data[p].mem
      [] OTHER -> m.data[p].io

\* lhs sorts before rhs: the comparison, reversed when reverse is set
before(m, lhs, rhs, field, rev) ==
    IF rev THEN query(m, rhs, field) < query(m, lhs, field)
           ELSE query(m, lhs, field) < query(m, rhs, field)

\* x put into the sorted seq after every element that does not sort after it
RECURSIVE insert_sorted(_, _, _, _, _)
insert_sorted(m, seq, x, field, rev) ==
    IF seq = <<>> THEN <<x>>
    ELSE IF before(m, x, Head(seq), field, rev) THEN <<x>> \o seq
    ELSE <<Head(seq)>> \o insert_sorted(m, Tail(seq), x, field, rev)

\* a stable sort of the children by the field
RECURSIVE sort_queriables(_, _, _, _)
sort_queriables(m, seq, field, rev) ==
    IF seq = <<>> THEN <<>>
    ELSE insert_sorted(m, sort_queriables(m, SubSeq(seq, 1, Len(seq) - 1), field, rev),
                       seq[Len(seq)], field, rev)

(***************************************************************************)
(* View state: CgroupState, without the model it shares with the collector *)
(***************************************************************************)
\* CgroupState::new
NewState ==
    [collapsed_cgroups |-> {},
     filter |-> None,
     sort_order |-> None,
     reverse |-> FALSE,
     collapse_all_top_level_cgroup |-> FALSE]

set_sort_tag_ascending_first(st, tag, rev) ==
    IF st.sort_order = Some(tag)
    THEN [state |-> [st EXCEPT !.reverse = ~rev], reverse |-> ~rev, ret |-> TRUE]
    ELSE [state |-> [st EXCEPT !.sort_order = Some(tag), !.reverse = FALSE],
          reverse |-> FALSE, ret |-> TRUE]

\* returns (the state, the caller's reverse flag, the result)
set_sort_tag(st, tag, rev) ==
    IF st.sort_order = Some(tag)
    THEN [state |-> [st EXCEPT !.reverse = ~rev], reverse |-> ~rev, ret |-> TRUE]
    ELSE [state |-> [st EXCEPT !.sort_order = Some(tag), !.reverse = TRUE],
          reverse |-> TRUE, ret |-> TRUE]

set_sort_order_and_expand(st, tag) ==
    [st EXCEPT !.sort_order = Some(tag), !.collapsed_cgroups = {}]

set_sort_order(st, tag) == [st EXCEPT !.sort_order = Some(tag)]

set_reverse(st, rev) == [st EXCEPT !.reverse = rev]

toggle_collapse_root_flag(st) ==
    [st EXCEPT !.collapse_all_top_level_cgroup = ~st.collapse_all_top_level_cgroup]

\* SingleCgroupModelFieldId::from_str: the names of the field identifiers; any other
\* string is an error (None)
FieldIdNames ==
    {<<"name", "Name">>, <<"cpu.usage_pct", "Cpu.UsagePct">>,
     <<"mem.total", "Mem.Total">>, <<"io.rwbytes_per_sec", "Io.RwbytesPerSec">>}

from_str(selection) ==
    IF \E e \in FieldIdNames : e[1] = selection
    THEN Some((CHOOSE e \in FieldIdNames : e[1] = selection)[2])
    ELSE None

\* a call that returns: the state, the caller's reverse flag, the result, no panic
Returned(r) == [state |-> r.state, reverse |-> r.reverse, ret |-> r.ret, panic |-> FALSE]

\* a call that panics before it has changed anything
Panicked(st, rev) == [state |-> st, reverse |-> rev, ret |-> FALSE, panic |-> TRUE]

set_sort_string_fallback(st, selection, rev) ==
    IF from_str(selection) # None
    THEN Returned(set_sort_tag(st, from_str(selection)[1], rev))
    ELSE Returned(set_sort_tag(st, "Name", rev))

set_sort_string(st, selection, rev) ==
    IF from_str(selection) # None
    THEN Returned(set_sort_tag(st, from_str(selection)[1], rev))
    ELSE Returned([state |-> st, reverse |-> rev, ret |-> FALSE])

\* the tabs of CgroupState::sort_tags: the field ids of their view_items
sort_tags ==
    [General |-> <<"Cpu.UsagePct", "Mem.Total", "Pressure.CpuFullPct",
                   "Pressure.MemoryFullPct", "Pressure.IoFullPct", "Io.RbytesPerSec",
                   "Io.WbytesPerSec", "Io.RwbytesPerSec">>,
     Mem |-> <<"Mem.Total", "Mem.Swap", "Mem.Anon", "Mem.File", "Mem.KernelStack",
               "Mem.Slab", "Mem.Sock", "Mem.Shmem", "Mem.FileMapped",
               "Mem.FileDirty", "Mem.FileWriteback", "Mem.AnonThp",
               "Mem.InactiveAnon", "Mem.ActiveAnon", "Mem.InactiveFile",
               "Mem.ActiveFile", "Mem.Unevictable", "Mem.SlabReclaimable",
               "Mem.SlabUnreclaimable", "Mem.Pgfault", "Mem.Pgmajfault",
               "Mem.WorkingsetRefault", "Mem.WorkingsetActivate",
               "Mem.WorkingsetNodereclaim", "Mem.Pgrefill", "Mem.Pgscan",
               "Mem.Pgsteal", "Mem.Pgactivate", "Mem.Pgdeactivate", "Mem.Pglazyfree",
               "Mem.Pglazyfreed", "Mem.ThpFaultAlloc", "Mem.ThpCollapseAlloc",
               "Mem.EventsLow", "Mem.EventsHigh", "Mem.EventsMax", "Mem.EventsOom",
               "Mem.EventsOomKill">>,
     CPU |-> <<"Cpu.UsagePct", "Cpu.UserPct", "Cpu.SystemPct", "Cpu.NrPeriodsPerSec",
               "Cpu.NrThrottledPerSec", "Cpu.ThrottledPct">>,
     IO |-> <<"Io.RbytesPerSec", "Io.WbytesPerSec", "Io.DbytesPerSec", "Io.RiosPerSec",
              "Io.WiosPerSec", "Io.DiosPerSec", "Io.RwbytesPerSec">>,
     Pressure |-> <<"Pressure.CpuSomePct", "Pressure.CpuFullPct", "Pressure.MemorySomePct",
                    "Pressure.MemoryFullPct", "Pressure.IoSomePct", "Pressure.IoFullPct">>,
     Perf |-> <<"Perf.Events">>]

set_sort_tag_from_tab_idx_clamped(st, tab, idx, rev) ==
    IF idx = 0 THEN Returned(set_sort_tag(st, "Name", rev))
    ELSE IF tab \notin DOMAIN sort_tags THEN Panicked(st, rev)
    ELSE IF idx > Len(sort_tags[tab])
    THEN Returned(set_sort_tag(st, sort_tags[tab][Len(sort_tags[tab])], rev))
    ELSE Returned(set_sort_tag(st, sort_tags[tab][idx], rev))

\* idx 0 is the name column; get(idx - 1) of the tab's view_items otherwise, with a
\* panic for an unknown tab ("Fail to find tab") or index ("Out of title scope")
set_sort_tag_from_tab_idx(st, tab, idx, rev) ==
    IF idx = 0 THEN Returned(set_sort_tag(st, "Name", rev))
    ELSE IF tab \notin DOMAIN sort_tags THEN Panicked(st, rev)
    ELSE IF idx > Len(sort_tags[tab]) THEN Panicked(st, rev)
    ELSE Returned(set_sort_tag(st, sort_tags[tab][idx], rev))

(***************************************************************************)
(* Tree walker: CgroupTab::get_rows / output_cgroup                        *)
(***************************************************************************)
\* format!("[RECREATED] {}", full_path); the literal is one token of the string
RecreatedMark == <<"[RECREATED] ">>

row_value(m, cgroup) ==
    IF recreate_flag(m, cgroup) THEN RecreatedMark \o full_path(cgroup)
                                ELSE full_path(cgroup)

\* get_line: the name item used (collapsed or not) and the emphasis; cgroup is the
\* node the line renders
get_line(m, cgroup, collapsed) ==
    [collapsed |-> collapsed, recreated |-> recreate_flag(m, cgroup), cgroup |-> cgroup]

sorted_children_ascending(m, cgroup, st) ==
    IF st.sort_order # None
    THEN sort_queriables(m, children(m, cgroup), st.sort_order[1], FALSE)
    ELSE children(m, cgroup)

sorted_children(m, cgroup, st) ==
    IF st.sort_order # None
    THEN sort_queriables(m, children(m, cgroup), st.sort_order[1], st.reverse)
    ELSE children(m, cgroup)

\* "Stop at next level": the children's paths are inserted into collapsed_cgroups
collapse_children_always(m, st, kids, collapsed) ==
    collapsed \cup {full_path(kids[i]) : i \in 1..Len(kids)}

collapse_children_never(m, st, kids, collapsed) == collapsed

collapse_children(m, st, kids, collapsed) ==
    IF st.collapse_all_top_level_cgroup
    THEN collapsed \cup {full_path(kids[i]) : i \in 1..Len(kids)}
    ELSE collapsed

\* the children are pushed in reverse order, so that the first one is popped first
push_children_first_only(cgroup_stack, kids) ==
    IF kids = <<>> THEN cgroup_stack ELSE Append(cgroup_stack, kids[1])

push_children_forward(cgroup_stack, kids) == cgroup_stack \o kids

push_children_twice(cgroup_stack, kids) == cgroup_stack \o Reverse(kids) \o Reverse(kids)

push_children(cgroup_stack, kids) == cgroup_stack \o Reverse(kids)

\* a node counts as collapsed when a key at or below its path is in the set
is_collapsed_by_prefix(cgroup, collapsed) ==
    \E k \in collapsed :
        Len(full_path(cgroup)) <= Len(k) /\ SubSeq(k, 1, Len(full_path(cgroup))) = full_path(cgroup)

\* state.collapsed_cgroups.borrow().contains(&cgroup.data.full_path)
is_collapsed(cgroup, collapsed) == full_path(cgroup) \in collapsed

\* the while loop over cgroup_stack (its top is the last element); collapsed is the
\* content of state.collapsed_cgroups, which the loop changes
RECURSIVE output_cgroup_loop(_, _, _, _, _, _)
output_cgroup_loop(m, st, filter_out_set, cgroup_stack, output, collapsed) ==
    IF cgroup_stack = <<>> THEN [rows |-> output, collapsed |-> collapsed]
    ELSE LET cgroup == cgroup_stack[Len(cgroup_stack)]
             rest == SubSeq(cgroup_stack, 1, Len(cgroup_stack) - 1)
         IN  IF filter_out_set # None /\ full_path(cgroup) \in filter_out_set[1]
             THEN output_cgroup_loop(m, st, filter_out_set, rest, output, collapsed)
             ELSE LET collapsed_now == is_collapsed(cgroup, collapsed)
                      row == [label |-> get_line(m, cgroup, collapsed_now),
                              value |-> row_value(m, cgroup)]
                      kids == sorted_children(m, cgroup, st)
                  IN  IF collapsed_now
                      THEN output_cgroup_loop(m, st, filter_out_set, rest,
                                              Append(output, row), collapsed)
                      ELSE output_cgroup_loop(m, st, filter_out_set,
                                              push_children(rest, kids),
                                              Append(output, row),
                                              collapse_children(m, st, kids, collapsed))

\* one round of the while loop, on its own: loop is (cgroup_stack, output, collapsed),
\* the stack not empty
output_cgroup_step(m, st, filter_out_set, loop) ==
    LET cgroup == loop.cgroup_stack[Len(loop.cgroup_stack)]
        rest == SubSeq(loop.cgroup_stack, 1, Len(loop.cgroup_stack) - 1)
    IN  IF filter_out_set # None /\ full_path(cgroup) \in filter_out_set[1]
        THEN [loop EXCEPT !.cgroup_stack = rest]
        ELSE LET collapsed_now == is_collapsed(cgroup, loop.collapsed)
                 row == [label |-> get_line(m, cgroup, collapsed_now),
                         value |-> row_value(m, cgroup)]
                 kids == sorted_children(m, cgroup, st)
             IN  IF collapsed_now
                 THEN [loop EXCEPT !.cgroup_stack = rest, !.output = Append(loop.output, row)]
                 ELSE [cgroup_stack |-> push_children(rest, kids),
                       output |-> Append(loop.output, row),
                       collapsed |-> collapse_children(m, st, kids, loop.collapsed)]

output_cgroup(m, st, filter_out_set) ==
    output_cgroup_loop(m, st, filter_out_set, <<Root>>, <<>>, st.collapsed_cgroups)

get_rows_unfiltered(m, st) == output_cgroup(m, st, None)

\* returns (the rows, the content of state.collapsed_cgroups after the pass)
get_rows(m, st) ==
    output_cgroup(m, st,
                  IF st.filter # None
                  THEN Some(calculate_filter_out_set(m, st.filter[1]))
                  ELSE None)

\* StatsView::refresh: the rows of the list are replaced by get_rows'
refresh(m, st) ==
    LET r == get_rows(m, st)
    IN  [state |-> [st EXCEPT !.collapsed_cgroups = r.collapsed], rows |-> r.rows]

(***************************************************************************)
(* Event handlers of CgroupView::new, up to their closing refresh          *)
(***************************************************************************)
toggle_root_keeps_set(st) == toggle_collapse_root_flag(st)

\* on_submit with the empty key: the root row
toggle_root(st) ==
    [toggle_collapse_root_flag(st) EXCEPT !.collapsed_cgroups = {}]

toggle_membership_insert_only(set, cgroup) == set \cup {cgroup}

toggle_membership(set, cgroup) ==
    IF cgroup \in set THEN set \ {cgroup} ELSE set \cup {cgroup}

clear_root_flag_never(st) == st

clear_root_flag(st) ==
    IF st.collapse_all_top_level_cgroup THEN toggle_collapse_root_flag(st) ELSE st

\* on_submit with a non-empty key
toggle_node(st, cgroup) ==
    LET s1 == clear_root_flag(st)
    IN  [s1 EXCEPT !.collapsed_cgroups = toggle_membership(s1.collapsed_cgroups, cgroup)]

on_submit_without_root(st, cgroup) == toggle_node(st, cgroup)

on_submit(st, cgroup) ==
    IF cgroup = <<>> THEN toggle_root(st) ELSE toggle_node(st, cgroup)

sort_shortcut_flipping(st, tag) == set_sort_tag(st, tag, st.reverse).state

\* on_event 'C', 'M', 'D'
sort_shortcut(st, tag) == set_reverse(set_sort_order(st, tag), TRUE)

(***************************************************************************)
(* The view as a state machine                                             *)
(***************************************************************************)
VARIABLES
    model,          \* the snapshot shared with the collector
    state,          \* the CgroupState of the view
    reverse_sort,   \* the reverse flag the view hands to set_sort_tag
    rows,           \* the rows of the list, as the last refresh left them
    toggled,        \* history: the keys of collapsed_cgroups that on_submit inserted
    calc            \* a function applied on its own: the result of the last call, if any

vars == <<model, state, reverse_sort, rows, toggled, calc>>

\* the filter strings typed into the view
ViewFilters == {None, Some(<<>>), Some(<<"b">>)}

Init ==
    /\ model \in Snapshots
    /\ state = NewState
    /\ reverse_sort \in BOOLEAN
    /\ rows = refresh(model, NewState).rows
    /\ toggled = {}
    /\ calc = None

\* a handler's closing view.refresh(c), over the handler's state st
Refreshed(st) ==
    LET r == refresh(model, st)
    IN  /\ state' = r.state
        /\ rows' = r.rows

\* a row of the list is activated: on_submit gets the row's value
OnSubmit ==
    \E i \in 1..Len(rows) :
        LET cgroup == rows[i].value
        IN  /\ \/ cgroup = <<>>
               \/ cgroup \in state.collapsed_cgroups
               \/ Cardinality(state.collapsed_cgroups) < MaxCollapsed
            /\ Refreshed(on_submit(state, cgroup))
            /\ toggled' = IF cgroup = <<>> THEN {}
                          ELSE IF cgroup \in state.collapsed_cgroups
                          THEN toggled \ {cgroup}
                          ELSE toggled \cup {cgroup}
            /\ UNCHANGED <<model, reverse_sort, calc>>

\* a column is chosen to sort by
OnSortTag ==
    \E tag \in Fields :
        LET r == set_sort_tag(state, tag, reverse_sort)
        IN  /\ Refreshed(r.state)
            /\ reverse_sort' = r.reverse
            /\ UNCHANGED <<model, toggled, calc>>

OnEventC ==
    /\ Refreshed(sort_shortcut(state, "Cpu.UsagePct"))
    /\ UNCHANGED <<model, reverse_sort, toggled, calc>>

OnEventM ==
    /\ Refreshed(sort_shortcut(state, "Mem.Total"))
    /\ UNCHANGED <<model, reverse_sort, toggled, calc>>

OnEventD ==
    /\ Refreshed(sort_shortcut(state, "Io.RwbytesPerSec"))
    /\ UNCHANGED <<model, reverse_sort, toggled, calc>>

\* the filter is set through get_filter
OnFilter ==
    \E f \in ViewFilters :
        /\ f # state.filter
        /\ Refreshed([state EXCEPT !.filter = f])
        /\ UNCHANGED <<model, reverse_sort, toggled, calc>>

\* a refresh tick: the snapshot the collector left is read and the rows are redone
Tick ==
    \E m \in Snapshots :
        LET r == refresh(m, state)
        IN  /\ model' = m
            /\ state' = r.state
            /\ rows' = r.rows
            /\ UNCHANGED <<reverse_sort, toggled, calc>>

Next ==
    \/ OnSubmit
    \/ OnSortTag
    \/ OnEventC
    \/ OnEventM
    \/ OnEventD
    \/ OnFilter
    \/ Tick

Spec == Init /\ [][Next]_vars

(***************************************************************************)
(* The filter engine applied on its own to a tree and a filter string      *)
(***************************************************************************)
RECURSIVE Strings(_)
Strings(n) ==
    IF n = 0 THEN {<<>>}
    ELSE Strings(n - 1) \cup {Append(s, c) : s \in Strings(n - 1), c \in Chars}

FilterInit ==
    /\ model \in FilterTrees
    /\ state \in {[NewState EXCEPT !.filter = Some(f)] : f \in Strings(MaxFilterLen)}
    /\ reverse_sort = FALSE
    /\ rows = <<>>
    /\ toggled = {}
    /\ calc = None

Calculate ==
    /\ calc = None
    /\ calc' = Some(calculate_filter_out_set(model, state.filter[1]))
    /\ UNCHANGED <<model, state, reverse_sort, rows, toggled>>

FilterNext == Calculate

FilterSpec == FilterInit /\ [][FilterNext]_vars

(***************************************************************************)
(* One pass of get_rows, borrow by borrow, next to the collector.  The     *)
(* model is an Rc<RefCell<CgroupModel>>: it lives on the thread of the     *)
(* view, and the collector's replacement is an event of that thread.       *)
(***************************************************************************)
\* the first state.get_model() of get_rows: the excluded set of the snapshot read
filter_out_set_of(m, st) ==
    IF st.filter # None THEN Some(calculate_filter_out_set(m, st.filter[1])) ELSE None

model_released_always(c) == TRUE

\* no pass is between its two borrows of the model: get_rows has no await or
\* callback in it, so another event of the thread runs only before or after it
model_released(c) == c = None

RenderInit ==
    /\ model \in Snapshots
    /\ state \in {[NewState EXCEPT !.filter = f] : f \in ViewFilters}
    /\ reverse_sort = FALSE
    /\ rows = <<>>
    /\ toggled = {}
    /\ calc = None

\* get_rows up to the end of its first borrow; seen is the snapshot that was read
BorrowForFilter ==
    /\ calc = None
    /\ calc' = Some([filter_out_set |-> filter_out_set_of(model, state), seen |-> model])
    /\ UNCHANGED <<model, state, reverse_sort, rows, toggled>>

\* get_rows from its second borrow on: the walk over the snapshot read now
BorrowForWalk ==
    /\ calc # None
    /\ LET r == output_cgroup(model, state, calc[1].filter_out_set)
       IN  /\ rows' = r.rows
           /\ state' = [state EXCEPT !.collapsed_cgroups = r.collapsed]
    /\ calc' = None
    /\ UNCHANGED <<model, reverse_sort, toggled>>

\* the collector's snapshot replaces the model
Replace ==
    /\ model_released(calc)
    /\ \E m \in Snapshots : m # model /\ model' = m
    /\ UNCHANGED <<state, reverse_sort, rows, toggled, calc>>

RenderNext ==
    \/ BorrowForFilter
    \/ BorrowForWalk
    \/ Replace

RenderSpec == RenderInit /\ [][RenderNext]_vars

(***************************************************************************)
(* The sort operations of CgroupState applied on their own, over a         *)
(* snapshot that holds the root only                                       *)
(***************************************************************************)
\* the strings handed to set_sort_string: the field names and strings that name none
Selections == {e[1] : e \in FieldIdNames} \cup {"", "cpu", "Cpu.UsagePct"}

\* the fields of the 'C', 'M' and 'D' shortcuts
ShortcutFields == {"Cpu.UsagePct", "Mem.Total", "Io.RwbytesPerSec"}

\* what a call left for its caller: the result, or the panic
Outcome(r) == Some([ret |-> r.ret, panic |-> r.panic])

\* a panic has ended the process
Aborted == calc # None /\ calc[1].panic

SortInit ==
    /\ model = Snapshot({Root}, {})
    /\ state = NewState
    /\ reverse_sort \in BOOLEAN
    /\ rows = refresh(model, NewState).rows
    /\ toggled = {}
    /\ calc = None

\* the call r has ended: the view refreshes when it returned, and is gone when not
Called(r) ==
    /\ IF r.panic THEN UNCHANGED <<state, rows>> ELSE Refreshed(r.state)
    /\ reverse_sort' = r.reverse
    /\ calc' = Outcome(r)
    /\ UNCHANGED <<model, toggled>>

SetSortTag ==
    /\ ~Aborted
    /\ \E tag \in Fields : Called(Returned(set_sort_tag(state, tag, reverse_sort)))

SetSortString ==
    /\ ~Aborted
    /\ \E selection \in Selections : Called(set_sort_string(state, selection, reverse_sort))

SetSortTagFromTabIdx ==
    /\ ~Aborted
    /\ \E tab \in DOMAIN sort_tags, idx \in 0..MaxTabIdx :
           Called(set_sort_tag_from_tab_idx(state, tab, idx, reverse_sort))

SortShortcut ==
    /\ ~Aborted
    /\ \E tag \in ShortcutFields :
           /\ Refreshed(sort_shortcut(state, tag))
           /\ calc' = None
           /\ UNCHANGED <<model, reverse_sort, toggled>>

SortNext ==
    \/ SetSortTag
    \/ SetSortString
    \/ SetSortTagFromTabIdx
    \/ SortShortcut

SortSpec == SortInit /\ [][SortNext]_vars

(***************************************************************************)
(* The tree walker applied on its own to a tree and a view state           *)
(***************************************************************************)
\* the trees the tree walker is applied to on its own (none of their nodes recreated)
WalkTrees == SnapshotsOf(Shapes(MaxWalkNodes, MaxWalkDepth), 0)

\* the keys of the nodes of depth 1 and of depth 1 or 2 a snapshot can have
WalkTopKeys == {<<"/", n>> : n \in Names}

WalkKeys == WalkTopKeys \cup {k1 \o k2 : k1 \in WalkTopKeys, k2 \in WalkTopKeys}

\* the filter strings: none, the empty one, a name, the start of a path below "/a"
WalkFilters == {None, Some(<<>>), Some(<<"b">>), Some(<<"a", "/">>)}

\* the states the view can be in when a pass starts.  reverse is set only together
\* with a sort field; while collapse_all_top_level is set, the collapsed set holds
\* only keys that passes have put there, which are keys of top-level nodes
WalkStates ==
    {st \in [collapsed_cgroups : {c \in SUBSET WalkKeys : Cardinality(c) <= MaxWalkCollapsed},
             filter : WalkFilters,
             sort_order : {None} \cup {Some(f) : f \in Fields},
             reverse : BOOLEAN,
             collapse_all_top_level_cgroup : BOOLEAN] :
        /\ st.reverse => st.sort_order # None
        /\ st.collapse_all_top_level_cgroup => st.collapsed_cgroups \subseteq WalkTopKeys}

WalkInit ==
    /\ model \in WalkTrees
    /\ state \in WalkStates
    /\ reverse_sort = state.reverse
    /\ rows = <<>>
    /\ toggled = {}
    /\ calc = None

\* one pass of the walker: view.refresh
Walk ==
    /\ Refreshed(state)
    /\ UNCHANGED <<model, reverse_sort, toggled, calc>>

WalkNext == Walk

WalkSpec == WalkInit /\ [][WalkNext]_vars

(***************************************************************************)
(* One pass of get_rows, round by round of the while loop of output_cgroup *)
(***************************************************************************)
\* the states a pass is followed from: no sort or a sort by CPU usage, no filter or
\* the filter "b"
StackStates ==
    {st \in WalkStates :
        /\ st.sort_order \in {None, Some("Cpu.UsagePct")}
        /\ st.filter \in {None, Some(<<"b">>)}}

StackInit ==
    /\ model \in WalkTrees
    /\ state \in StackStates
    /\ reverse_sort = state.reverse
    /\ rows = <<>>
    /\ toggled = {}
    /\ calc = None

\* get_rows up to the while loop: the excluded set, the stack with the root on it.
\* pushed is the history of the pushes onto the stack
StartWalk ==
    /\ calc = None
    /\ rows = <<>>
    /\ calc' = Some([filter_out_set |-> filter_out_set_of(model, state),
                     loop |-> [cgroup_stack |-> <<Root>>, output |-> <<>>,
                               collapsed |-> state.collapsed_cgroups],
                     pushed |-> <<Root>>])
    /\ UNCHANGED <<model, state, reverse_sort, rows, toggled>>

\* one round of the while loop
WalkRound ==
    /\ calc # None
    /\ calc[1].loop.cgroup_stack # <<>>
    /\ LET before_round == calc[1].loop.cgroup_stack
           after == output_cgroup_step(model, state, calc[1].filter_out_set, calc[1].loop)
       IN  calc' = Some([filter_out_set |-> calc[1].filter_out_set,
                         loop |-> after,
                         pushed |-> calc[1].pushed
                                        \o SubSeq(after.cgroup_stack, Len(before_round),
                                                  Len(after.cgroup_stack))])
    /\ UNCHANGED <<model, state, reverse_sort, rows, toggled>>

\* the stack is empty: the loop is left and the rows are returned
EndWalk ==
    /\ calc # None
    /\ calc[1].loop.cgroup_stack = <<>>
    /\ rows' = calc[1].loop.output
    /\ state' = [state EXCEPT !.collapsed_cgroups = calc[1].loop.collapsed]
    /\ calc' = None
    /\ UNCHANGED <<model, reverse_sort, toggled>>

StackNext ==
    \/ StartWalk
    \/ WalkRound
    \/ EndWalk

\* a round of the loop and the return do not wait for anything
StackSpec ==
    StackInit /\ [][StackNext]_vars /\ WF_vars(WalkRound) /\ WF_vars(EndWalk)

(***************************************************************************)
(* Properties of the filter engine (under FilterSpec)                      *)
(***************************************************************************)
Matches(p, f) == Contains(full_path(p), f)

\* C1: a node's key is in the set calculate_filter_out_set returns if and only if
\* neither its own key nor the key of any of its descendants contains the filter
\* (the keys are hierarchical and unique).
C1_ExcludedIffNoMatchInSubtree ==
    calc # None =>
        \A p \in model.nodes :
            full_path(p) \in calc[1] <=>
                ~\E q \in {p} \cup Descendants(model, p) : Matches(q, state.filter[1])

\* the set was computed for a tree in which an inner node below the root matches the
\* filter itself and is kept, while another node is excluded
C1_Witness ==
    /\ calc # None
    /\ \E p \in model.nodes \ {Root} :
           /\ count(model, p) > 1
           /\ Matches(p, state.filter[1])
           /\ full_path(p) \notin calc[1]
    /\ calc[1] # {}

\* C2: no ancestor of a node that is not in the excluded set is in the excluded set.
C2_KeptNodeKeepsAncestors ==
    calc # None =>
        \A p \in model.nodes :
            full_path(p) \notin calc[1] =>
                \A a \in Ancestors(p) : full_path(a) \notin calc[1]

\* a node two levels below the root is kept while some other node is excluded
C2_Witness ==
    /\ calc # None
    /\ \E p \in model.nodes : Len(p) >= 2 /\ full_path(p) \notin calc[1]
    /\ calc[1] # {}

\* C22: the excluded set is closed under descendants: with the key of a node, the
\* key of every node of its subtree is in the set, so that the walk, which skips an
\* excluded node without pushing its children, has a row for every node that is not
\* excluded itself (nothing being collapsed).
C22_ExcludedSetClosedUnderDescendants ==
    calc # None =>
        /\ \A p \in model.nodes :
               full_path(p) \in calc[1] =>
                   \A q \in Descendants(model, p) : full_path(q) \in calc[1]
        /\ LET out == output_cgroup(model, state, calc).rows
           IN  \A p \in model.nodes :
                   full_path(p) \notin calc[1] => \E i \in 1..Len(out) : out[i].label.cgroup = p

\* the set holds the key of a node below the root together with the keys of the two
\* nodes beneath it, while another node of the tree is kept
C22_Witness ==
    /\ calc # None
    /\ \E p \in model.nodes \ {Root} :
           /\ count(model, p) = 3
           /\ full_path(p) \in calc[1]
    /\ \E p \in model.nodes \ {Root} : full_path(p) \notin calc[1]

(***************************************************************************)
(* Properties of the view (under Spec).  A property of an operation is     *)
(* stated over every reachable state: the operation, as defined above, is  *)
(* applied to the state and its result is compared with the state.         *)
(***************************************************************************)
TopLevel(m) == {p \in m.nodes : Len(p) = 1}

TopKeys(m) == {full_path(p) : p \in TopLevel(m)}

\* the excluded set a render over m computes from the state's filter
Excluded(m, st) ==
    IF st.filter # None THEN calculate_filter_out_set(m, st.filter[1]) ELSE {}

\* the keys a row of some snapshot can carry as its value
RowKeys == UNION {{row_value(m, p) : p \in m.nodes} : m \in Snapshots}

\* an activation of the row with value cgroup, with the refresh that closes it
Activate(m, st, cgroup) == refresh(m, on_submit(st, cgroup))

\* C3 as stated: a render pass, over whatever snapshot, leaves the collapsed set as
\* it was, also when collapse_all_top_level is true.
C3_RenderNeverChangesCollapsed ==
    \A m \in Snapshots :
        get_rows(m, state).collapsed = state.collapsed_cgroups

\* C3, amended: a render pass leaves the collapsed set as it was when
\* collapse_all_top_level is false or the root is excluded; otherwise it inserts the
\* keys of all the root's direct children, and the set after the pass is the set
\* before it with those keys added.
C3_RenderPersistsTopLevelOnly ==
    \A m \in Snapshots :
        get_rows(m, state).collapsed =
            IF state.collapse_all_top_level_cgroup /\ full_path(Root) \notin Excluded(m, state)
            THEN state.collapsed_cgroups \cup TopKeys(m)
            ELSE state.collapsed_cgroups

\* the rows were rendered with collapse_all_top_level set: the keys of the root's
\* children are in the collapsed set and none of them was put there by on_submit
C3_Witness ==
    /\ state.collapse_all_top_level_cgroup
    /\ Cardinality(TopLevel(model)) = 2
    /\ TopKeys(model) \subseteq state.collapsed_cgroups
    /\ toggled = {}
    /\ Len(rows) = 3

\* C4: while collapse_all_top_level is true, every render, over any snapshot and
\* with whatever keys in the collapsed set, yields rows for the root and the root's
\* direct children only; every direct child that is not excluded has a row, which
\* shows it collapsed, and no node of depth 2 or more has a row.
C4_CollapseAllShowsDepthOne ==
    state.collapse_all_top_level_cgroup =>
        \A m \in Snapshots :
            LET out == get_rows(m, state).rows
            IN  /\ \A i \in 1..Len(out) : Len(out[i].label.cgroup) <= 1
                /\ \A p \in TopLevel(m) :
                       full_path(p) \notin Excluded(m, state) =>
                           \E i \in 1..Len(out) :
                               out[i].label.cgroup = p /\ out[i].label.collapsed

\* collapse_all_top_level is set, the snapshot has a node of depth 2 and a stale key
\* is in the collapsed set; the rows are the root and its child, shown collapsed
C4_Witness ==
    /\ state.collapse_all_top_level_cgroup
    /\ \E p \in model.nodes : Len(p) = 2
    /\ \E k \in state.collapsed_cgroups : \A p \in model.nodes : full_path(p) # k
    /\ Len(rows) = 2
    /\ rows[2].label.collapsed

\* C5 as stated: after toggle_node(k) issued while collapse_all_top_level is true,
\* the flag is cleared and, at the next render, a top-level node other than k is
\* collapsed only if a toggle_node call put its key into the collapsed set.
C5_ToggleNodeCancelsBlanketRule ==
    state.collapse_all_top_level_cgroup =>
        \A k \in RowKeys \ {<<>>} :
            LET after == Activate(model, state, k)
            IN  /\ ~after.state.collapse_all_top_level_cgroup
                /\ \A i \in 1..Len(after.rows) :
                       LET p == after.rows[i].label.cgroup
                       IN  (Len(p) = 1 /\ full_path(p) # k /\ after.rows[i].label.collapsed)
                               => full_path(p) \in toggled

\* C5, amended: toggle_node(k) issued while collapse_all_top_level is true clears the
\* flag and toggles k only; the keys that the renders made under the flag put into
\* the collapsed set stay there, so at the next render a top-level node other than k
\* is collapsed if and only if its key was in the collapsed set before the call.
C5_ToggleNodeKeepsRenderedCollapses ==
    state.collapse_all_top_level_cgroup =>
        \A k \in RowKeys \ {<<>>} :
            LET after == Activate(model, state, k)
            IN  /\ ~after.state.collapse_all_top_level_cgroup
                /\ after.state.collapsed_cgroups =
                       toggle_membership(state.collapsed_cgroups, k)
                /\ \A i \in 1..Len(after.rows) :
                       LET p == after.rows[i].label.cgroup
                       IN  (Len(p) = 1 /\ full_path(p) # k)
                               => (after.rows[i].label.collapsed
                                       <=> full_path(p) \in state.collapsed_cgroups)

\* toggle_node has cleared the flag, and a top-level node is still shown collapsed
\* by a key that no toggle_node call inserted
C5_Witness ==
    /\ ~state.collapse_all_top_level_cgroup
    /\ \E i \in 1..Len(rows) :
           /\ Len(rows[i].label.cgroup) = 1
           /\ rows[i].label.collapsed
           /\ full_path(rows[i].label.cgroup) \notin toggled
    /\ \E i \in 1..Len(rows) :
           /\ Len(rows[i].label.cgroup) = 1
           /\ ~rows[i].label.collapsed

\* C6 as stated: in every reachable state, set_sort(field) flips the state's reverse
\* flag when field is the current sort field, and otherwise makes field the sort
\* field and sets reverse to true.
C6_SetSortFlipsOrSelects ==
    \A tag \in Fields :
        LET after == set_sort_tag(state, tag, reverse_sort).state
        IN  IF state.sort_order = Some(tag)
            THEN after.sort_order = Some(tag) /\ after.reverse = ~state.reverse
            ELSE after.sort_order = Some(tag) /\ after.reverse = TRUE

\* set_sort(tag) applied twice in a row, the caller handing over the same flag
SetSortTwice(st, tag, rev) ==
    LET first == set_sort_tag(st, tag, rev)
    IN  set_sort_tag(first.state, tag, first.reverse)

\* C7 as stated: set_sort(field) applied twice in a row returns the sort state to
\* its original (sort field, reverse) pair, from every state and for every field.
C7_SetSortTwiceRestores ==
    \A tag \in Fields :
        LET after == SetSortTwice(state, tag, reverse_sort).state
        IN  after.sort_order = state.sort_order /\ after.reverse = state.reverse

\* C7, amended: after set_sort(field) applied twice in a row the sort field is field
\* and reverse is the opposite of what the first call left: false when field was not
\* the sort field before, the caller's flag as it was before the calls when it was.
\* The original pair is restored exactly when field was the sort field already and
\* the state's reverse agreed with the caller's flag.
C7_SetSortTwiceResult ==
    \A tag \in Fields :
        LET first == set_sort_tag(state, tag, reverse_sort).state
            after == SetSortTwice(state, tag, reverse_sort).state
        IN  /\ after.sort_order = Some(tag)
            /\ after.reverse = ~first.reverse
            /\ after.reverse = IF state.sort_order = Some(tag) THEN reverse_sort ELSE FALSE
            /\ (after.sort_order = state.sort_order /\ after.reverse = state.reverse)
                   <=> (state.sort_order = Some(tag) /\ state.reverse = reverse_sort)

\* a field was chosen twice: it is the sort field, the direction is ascending again
\* and agrees with the caller's flag, so that two more calls restore the pair
C7_Witness ==
    /\ state.sort_order # None
    /\ ~state.reverse
    /\ ~reverse_sort
    /\ LET after == SetSortTwice(state, state.sort_order[1], reverse_sort).state
       IN  after.sort_order = state.sort_order /\ after.reverse = state.reverse

\* the root row activated twice in a row
ToggleRootTwice(m, st) == Activate(m, Activate(m, st, <<>>).state, <<>>).state

\* C8 as stated: activating the root row twice in a row returns both
\* collapse_all_top_level and the collapsed set to what they were, from every state.
C8_ToggleRootTwiceRestores ==
    LET after == ToggleRootTwice(model, state)
    IN  /\ after.collapse_all_top_level_cgroup = state.collapse_all_top_level_cgroup
        /\ after.collapsed_cgroups = state.collapsed_cgroups

\* C8, amended: activating the root row twice in a row returns
\* collapse_all_top_level to what it was, but each activation clears the collapsed
\* set: after the two, the set is empty if the flag was false before, and holds the
\* keys of the root's direct children (put there by the closing render) if the flag
\* was true and the root is not excluded.
C8_ToggleRootTwiceResult ==
    LET after == ToggleRootTwice(model, state)
    IN  /\ after.collapse_all_top_level_cgroup = state.collapse_all_top_level_cgroup
        /\ after.collapsed_cgroups =
               IF state.collapse_all_top_level_cgroup
                  /\ full_path(Root) \notin Excluded(model, state)
               THEN TopKeys(model)
               ELSE {}

\* a key that toggle_node inserted is in the collapsed set and the flag is false;
\* two activations of the root row leave the flag false and the set empty
C8_Witness ==
    /\ ~state.collapse_all_top_level_cgroup
    /\ toggled # {}
    /\ ToggleRootTwice(model, state).collapsed_cgroups = {}
    /\ rows[1].value = <<>>

\* C9: toggle_node(k) followed by toggle_node(k), each with its closing render and
\* no root toggle in between, leaves the collapsed set as it was before both calls.
C9_ToggleNodeTwiceRestores ==
    \A k \in RowKeys \ {<<>>} :
        Activate(model, Activate(model, state, k).state, k).state.collapsed_cgroups
            = state.collapsed_cgroups

\* toggle_node has inserted the key of a node of depth 2, which no render inserts
C9_Witness ==
    /\ \E k \in toggled : Len(k) = 4
    /\ \E i \in 1..Len(rows) : rows[i].value \in toggled

EmptyFilter(st) == st.filter = None \/ st.filter = Some(<<>>)

\* C10 as stated: in every reachable state whose filter is empty and whose collapsed
\* set is empty, a render returns as many rows as the snapshot has nodes.
C10_RowCountIsNodeCount ==
    (EmptyFilter(state) /\ state.collapsed_cgroups = {}) =>
        \A m \in Snapshots : Len(get_rows(m, state).rows) = count(m, Root)

\* C10, amended: in every reachable state whose filter is empty, whose collapsed set
\* is empty and whose collapse_all_top_level is false, a render returns as many rows
\* as the snapshot has nodes, whatever the sort state.
C10_RowCountIsNodeCountUnlessCollapseAll ==
    (EmptyFilter(state) /\ state.collapsed_cgroups = {}
        /\ ~state.collapse_all_top_level_cgroup) =>
        \A m \in Snapshots : Len(get_rows(m, state).rows) = count(m, Root)

\* the rows of a snapshot of three nodes, two of them siblings, were rendered under
\* an active descending sort with the empty string as the filter
C10_Witness ==
    /\ state.filter = Some(<<>>)
    /\ state.collapsed_cgroups = {}
    /\ ~state.collapse_all_top_level_cgroup
    /\ state.sort_order # None /\ state.reverse
    /\ Cardinality(TopLevel(model)) = 2
    /\ Len(rows) = 3

\* the effective collapse test of a pass over m: the key is in the collapsed set, or
\* collapse_all_top_level is set and the key is that of a direct child of the root
IsCollapsed(m, st, k) ==
    k \in st.collapsed_cgroups \/ (st.collapse_all_top_level_cgroup /\ k \in TopKeys(m))

\* the node is not excluded and no proper ancestor of it is excluded or collapsed
Visible(m, st, p) ==
    /\ full_path(p) \notin Excluded(m, st)
    /\ \A a \in Ancestors(p) :
           full_path(a) \notin Excluded(m, st) /\ ~IsCollapsed(m, st, full_path(a))

RowsOf(out, p) == {i \in 1..Len(out) : out[i].label.cgroup = p}

\* C11: a node of the snapshot has a row in the output of a render if and only if its
\* key is not excluded and none of its proper ancestors is excluded or collapsed, and
\* such a node has exactly one row.
C11_RowIffVisible ==
    LET out == get_rows(model, state).rows
    IN  /\ \A i \in 1..Len(out) : out[i].label.cgroup \in model.nodes
        /\ \A p \in model.nodes :
               Cardinality(RowsOf(out, p)) = IF Visible(model, state, p) THEN 1 ELSE 0

\* the rows of the tree root -> {/a -> {/a/a}, /b} were rendered under the filter
\* "a/", which only /a/a contains, with nothing collapsed: the rows are those of the
\* root, /a and /a/a, and the excluded /b has none
C11_Witness ==
    /\ model.nodes = {Root, <<"a">>, <<"a", "a">>, <<"b">>}
    /\ state.filter = Some(<<"a", "/">>)
    /\ state.collapsed_cgroups = {}
    /\ ~state.collapse_all_top_level_cgroup
    /\ Excluded(model, state) = {full_path(<<"b">>)}
    /\ [i \in 1..Len(rows) |-> rows[i].label.cgroup] = <<Root, <<"a">>, <<"a", "a">> >>

\* the nodes the rows render, in the order of the rows
RowNodes(out) == [i \in 1..Len(out) |-> out[i].label.cgroup]

\* the order in which a node holds its children for a pass: the sorted order, which
\* is the insertion order when no sort is active
ChildOrder(m, st, p) ==
    IF st.sort_order = None THEN children(m, p) ELSE sorted_children(m, p, st)

\* C12: rows are emitted in depth-first pre-order: the row of a node comes before the
\* rows of all its descendants, all rows of one child's subtree come before the rows
\* of the next child's subtree, and siblings appear in the node's (sorted) child
\* order, which is the insertion order when no sort is active.
C12_RowsInPreOrder ==
    LET out == RowNodes(get_rows(model, state).rows)
    IN  /\ \A i, j \in 1..Len(out) :
               (IsPrefix(out[i], out[j]) /\ out[i] # out[j]) => i < j
        /\ \A p \in model.nodes :
               LET kids == ChildOrder(model, state, p)
               IN  \A a, b \in 1..Len(kids) :
                       a < b =>
                           \A i, j \in 1..Len(out) :
                               (IsPrefix(kids[a], out[i]) /\ IsPrefix(kids[b], out[j]))
                                   => i < j

\* the rows of the tree root -> {/a -> {/a/a}, /b} were rendered under a descending
\* sort by CPU usage: /b comes first, then /a and, right after it, /a/a
C12_Witness ==
    /\ state.sort_order = Some("Cpu.UsagePct") /\ state.reverse
    /\ RowNodes(rows) = <<Root, <<"b">>, <<"a">>, <<"a", "a">> >>

\* the position of a node's row in the output
RowIndex(out, p) == CHOOSE i \in 1..Len(out) : out[i].label.cgroup = p

ChildIndex(m, p) == CHOOSE i \in 1..Len(children(m, Parent(p))) : children(m, Parent(p))[i] = p

\* c1 has to come before its sibling c2: by the field, descending when reverse is set
\* and ascending when not, and by insertion order when the field ties
ComesFirst(m, st, c1, c2) ==
    LET q1 == query(m, c1, st.sort_order[1])
        q2 == query(m, c2, st.sort_order[1])
    IN  IF q1 = q2 THEN ChildIndex(m, c1) < ChildIndex(m, c2)
        ELSE IF st.reverse THEN q1 > q2 ELSE q1 < q2

\* at every level, the rows of the children of one node are in the order of the field
ChildrenInFieldOrder(m, st) ==
    LET out == get_rows(m, st).rows
    IN  \A c1, c2 \in m.nodes \ {Root} :
            (c1 # c2 /\ Parent(c1) = Parent(c2)
                /\ RowsOf(out, c1) # {} /\ RowsOf(out, c2) # {})
            => (RowIndex(out, c1) < RowIndex(out, c2) <=> ComesFirst(m, st, c1, c2))

Shortcut(m, st, tag) == refresh(m, sort_shortcut(st, tag)).state

\* C15: each of the sort-by-CPU, sort-by-memory and sort-by-disk shortcuts, from
\* every view state, leaves the sort field equal to its fixed field identifier and
\* reverse equal to true, also when the same shortcut is pressed again.
C15_ShortcutForcesReverse ==
    \A tag \in ShortcutFields :
        LET once == Shortcut(model, state, tag)
            twice == Shortcut(model, once, tag)
        IN  /\ once.sort_order = Some(tag) /\ once.reverse
            /\ twice.sort_order = Some(tag) /\ twice.reverse

\* the sort-by-disk shortcut has acted: the field is read+write bytes per second and
\* reverse is true while the flag of the caller of set_sort_tag, which only a shortcut
\* leaves behind, is false
C15_Witness ==
    /\ state.sort_order = Some("Io.RwbytesPerSec")
    /\ state.reverse
    /\ ~reverse_sort
    /\ Shortcut(model, state, "Io.RwbytesPerSec") = state

\* the keys of the nodes of a snapshot
Keys(m) == {full_path(p) : p \in m.nodes}

\* C17: keys of the collapsed set that name no node of the snapshot are ignored:
\* after any replacement of the snapshot, a render over the snapshot and the
\* collapsed set returns the rows that a render over the snapshot and the collapsed
\* set without the absent keys returns.
C17_StaleKeysIgnored ==
    \A m \in Snapshots :
        LET present == [state EXCEPT !.collapsed_cgroups = state.collapsed_cgroups \cap Keys(m)]
        IN  get_rows(m, state).rows = get_rows(m, present).rows

\* the snapshot was replaced: the collapsed set holds a key, no key of it names a
\* node of the snapshot, and all three nodes of the snapshot have their row
C17_Witness ==
    /\ state.collapsed_cgroups # {}
    /\ state.collapsed_cgroups \cap Keys(model) = {}
    /\ \E p \in model.nodes : Len(p) = 2
    /\ Len(rows) = 3

\* C18: when no key of the tree contains the filter string, the excluded set holds
\* the key of the root and of every other node of the tree, and the render returns
\* an empty list of rows and leaves the view state as it was.
C18_NoMatchGivesNoRows ==
    state.filter # None =>
        \A m \in Snapshots :
            (\A p \in m.nodes : ~Matches(p, state.filter[1])) =>
                /\ calculate_filter_out_set(m, state.filter[1]) = Keys(m)
                /\ refresh(m, state).rows = <<>>
                /\ refresh(m, state).state = state

\* the list is empty: the filter is "b", which no key of the three nodes of the
\* snapshot contains, while collapse_all_top_level is set
C18_Witness ==
    /\ state.filter = Some(<<"b">>)
    /\ count(model, Root) = 3
    /\ Excluded(model, state) = Keys(model)
    /\ state.collapse_all_top_level_cgroup
    /\ rows = <<>>

\* what the activation of a row with a non-empty key may change
NodeActivationEffect(m, st, k) ==
    LET after == Activate(m, st, k).state
    IN  /\ ~st.collapse_all_top_level_cgroup => ~after.collapse_all_top_level_cgroup
        /\ after.collapsed_cgroups \ {k} = st.collapsed_cgroups \ {k}

\* C20 as stated: activating the row of the root flips collapse_all_top_level and
\* leaves the collapsed set empty; activating a row with a non-empty key never sets
\* collapse_all_top_level and changes the collapsed set in that key only.
C20_RootClearsNodeTogglesOne ==
    /\ LET after == Activate(model, state, <<>>).state
       IN  /\ after.collapse_all_top_level_cgroup = ~state.collapse_all_top_level_cgroup
           /\ after.collapsed_cgroups = {}
    /\ \A k \in RowKeys \ {<<>>} : NodeActivationEffect(model, state, k)

\* C20, amended: activating the row of the root flips collapse_all_top_level and
\* clears the collapsed set, and the refresh that closes the activation leaves the
\* set empty when the flag is now false or the root is excluded, and holding the keys
\* of the root's direct children when the flag is now true; activating a row with a
\* non-empty key never sets collapse_all_top_level and changes the collapsed set in
\* the membership of that key only.
C20_RootClearsThenRenderCollapses ==
    /\ LET cleared == on_submit(state, <<>>)
           after == Activate(model, state, <<>>).state
       IN  /\ cleared.collapsed_cgroups = {}
           /\ after.collapse_all_top_level_cgroup = ~state.collapse_all_top_level_cgroup
           /\ after.collapsed_cgroups =
                  IF after.collapse_all_top_level_cgroup
                     /\ full_path(Root) \notin Excluded(model, state)
                  THEN TopKeys(model)
                  ELSE {}
    /\ \A k \in RowKeys \ {<<>>} :
           /\ NodeActivationEffect(model, state, k)
           /\ Activate(model, state, k).state.collapsed_cgroups
                  = toggle_membership(state.collapsed_cgroups, k)

\* the row of the root was activated on a snapshot whose root has one child, which
\* has a child: the flag is set, the collapsed set holds the key of the root's child
\* and nothing else, and the rows are the root and its child
C20_Witness ==
    /\ state.collapse_all_top_level_cgroup
    /\ Cardinality(TopLevel(model)) = 1
    /\ \E p \in model.nodes : Len(p) = 2
    /\ state.collapsed_cgroups = TopKeys(model)
    /\ Activate(model, on_submit(state, <<>>), <<>>).state = state
    /\ Len(rows) = 2

\* the activation of row i of out, with the value the render returned for it, toggles
\* the collapse of the row's node p: the next render of the snapshot shows p collapsed
\* if it was expanded and expanded if it was collapsed, and a child of p that is not
\* excluded has a row if and only if it had none
RowActivationToggles(m, st, out, i) ==
    LET p == out[i].label.cgroup
        next == Activate(m, st, out[i].value).rows
    IN  /\ RowsOf(next, p) # {}
        /\ \A j \in RowsOf(next, p) : next[j].label.collapsed = ~out[i].label.collapsed
        /\ \A c \in Range(children(m, p)) :
               full_path(c) \notin Excluded(m, st) =>
                   (RowsOf(next, c) # {} <=> RowsOf(out, c) = {})

\* C21: for every row of a render whose node is not the root, recreated or not,
\* activating the row with the key the render returned for it toggles the collapse of
\* that node: at the next render of the same snapshot its descendants are hidden if
\* they were shown and shown if they were hidden.
C21_RowActivationTogglesItsNode ==
    \A i \in 1..Len(rows) :
        rows[i].label.cgroup # Root => RowActivationToggles(model, state, rows, i)

\* the same, for the rows of the nodes that are not recreated
C21_PlainRowActivationTogglesItsNode ==
    \A i \in 1..Len(rows) :
        (rows[i].label.cgroup # Root /\ ~rows[i].label.recreated)
            => RowActivationToggles(model, state, rows, i)

\* the states the sort operations that return leave, before the refresh that follows
SortResults(st, rev) ==
    {set_sort_tag(st, tag, rev).state : tag \in Fields}
        \cup {set_sort_tag_from_tab_idx(st, tab, idx, rev).state :
                  tab \in DOMAIN sort_tags, idx \in 0..MaxTabIdx}
        \cup {set_sort_string(st, selection, rev).state : selection \in Selections}
        \cup {sort_shortcut(st, tag) : tag \in ShortcutFields}

SameCollapseAndFilter(s, t) ==
    /\ s.collapsed_cgroups = t.collapsed_cgroups
    /\ s.collapse_all_top_level_cgroup = t.collapse_all_top_level_cgroup
    /\ s.filter = t.filter

SameSortAndFilter(s, t) ==
    /\ s.sort_order = t.sort_order
    /\ s.reverse = t.reverse
    /\ s.filter = t.filter

\* C23: every sort operation (set_sort, sort by column index, sort by name, the three
\* shortcuts), with the refresh that follows it, leaves the collapsed set,
\* collapse_all_top_level and the filter as they were, and every activation of a row
\* (of the root or of another node) leaves the sort field, reverse and the filter as
\* they were.
C23_SortAndCollapseIndependent ==
    /\ \A sorted \in SortResults(state, reverse_sort) :
           /\ SameCollapseAndFilter(sorted, state)
           /\ SameCollapseAndFilter(refresh(model, sorted).state, state)
    /\ \A k \in RowKeys :
           /\ SameSortAndFilter(on_submit(state, k), state)
           /\ SameSortAndFilter(Activate(model, state, k).state, state)

\* a descending sort is active next to a filter, a key that an activation inserted
\* and is still collapsed, and a row shown collapsed
C23_Witness ==
    /\ state.sort_order # None /\ state.reverse
    /\ state.filter = Some(<<"b">>)
    /\ toggled # {} /\ toggled \subseteq state.collapsed_cgroups
    /\ \E i \in 1..Len(rows) : rows[i].label.collapsed

(***************************************************************************)
(* Properties of the sort operations (under SortSpec)                      *)
(***************************************************************************)
\* C13: set_sort_string with a string that resolves to no field identifier returns
\* false and leaves the sort field, the state's reverse flag and the caller's reverse
\* flag as they were; with a string that resolves it does what set_sort_tag does on
\* the resolved field, and returns true.
C13_UnresolvedNameRejected ==
    \A selection \in Selections :
        LET r == set_sort_string(state, selection, reverse_sort)
        IN  /\ ~r.panic
            /\ IF from_str(selection) = None
               THEN ~r.ret /\ r.state = state /\ r.reverse = reverse_sort
               ELSE LET s == set_sort_tag(state, from_str(selection)[1], reverse_sort)
                    IN  r.ret /\ r.state = s.state /\ r.reverse = s.reverse

\* the last call returned false, and the descending sort by memory that was chosen
\* before it is still in place
C13_Witness ==
    /\ calc = Some([ret |-> FALSE, panic |-> FALSE])
    /\ state.sort_order = Some("Mem.Total")
    /\ state.reverse /\ reverse_sort

\* C14: sort by column index: index 0 selects the Name field, index i from 1 to the
\* number of items of the tab selects the field of item i, and a greater index is
\* rejected with a panic that leaves the sort field and both reverse flags as they
\* were.
C14_TabIdxSelectsOrPanics ==
    \A tab \in DOMAIN sort_tags, idx \in 0..MaxTabIdx :
        LET r == set_sort_tag_from_tab_idx(state, tab, idx, reverse_sort)
            items == sort_tags[tab]
            expect(tag) ==
                LET s == set_sort_tag(state, tag, reverse_sort)
                IN  ~r.panic /\ r.ret /\ r.state = s.state /\ r.reverse = s.reverse
                    /\ r.state.sort_order = Some(tag)
        IN  IF idx = 0 THEN expect("Name")
            ELSE IF idx <= Len(items) THEN expect(items[idx])
            ELSE r.panic /\ r.state = state /\ r.reverse = reverse_sort

\* the last call panicked on an index beyond the tab's items, after a sort by a
\* column had been chosen, which is still in place
C14_Witness ==
    /\ Aborted
    /\ state.sort_order = Some("Pressure.IoFullPct")
    /\ state.reverse

NoDuplicates(s) == \A i, j \in 1..Len(s) : s[i] = s[j] => i = j

\* the rounds, taken one by one, end with what the loop as a whole returns
RoundsAgreeWithLoop ==
    (calc # None /\ calc[1].loop.cgroup_stack = <<>>) =>
        /\ calc[1].loop.output = get_rows(model, state).rows
        /\ calc[1].loop.collapsed = get_rows(model, state).collapsed

\* C24: the walk of a render pass over a finite tree terminates, from every view
\* state: a pass that has started reaches the empty stack and returns; and no node is
\* pushed onto the stack more than once.
C24_WalkTerminatesPushingOnce ==
    /\ [](calc # None => NoDuplicates(calc[1].pushed))
    /\ (calc # None) ~> (calc # None /\ calc[1].loop.cgroup_stack = <<>>)
    /\ (calc # None) ~> (calc = None)

\* the stack of a pass over a tree of five nodes is empty again after every one of
\* the five nodes was pushed and had its row
C24_Witness ==
    /\ calc # None
    /\ calc[1].loop.cgroup_stack = <<>>
    /\ Len(calc[1].pushed) = 5
    /\ Len(calc[1].loop.output) = 5

=============================================================================
